---- MODULE Spec2Model ----
(***************************************************************************)
(* Model of make_deploy_commit.py: the deploy-commit orchestration script. *)
(*                                                                         *)
(* Python strings that the script takes apart (commit summaries, file      *)
(* paths, workflow names, JSON keys) are sequences of one-character        *)
(* strings, so that re.findall, str.startswith and str.split are computed  *)
(* character by character.  Strings that are only compared or copied       *)
(* (author names, hashes, prompt responses) are TLA+ strings.              *)
(***************************************************************************)
EXTENDS Integers, Sequences, FiniteSets, TLC

VARIABLES
    pc,            \* position of main(): the statement group executed next
    error,         \* why the run ended Fatal ("none" while it has not)
    ops,           \* version-control backend operations issued so far, in order
    fileExists,    \* os.path.isfile(deploy_path)
    fileDoc,       \* JSON text of the manifest (members in textual order)
    origDoc,       \* the manifest as it was when the run started (NoDoc: no file)
    readDoc,       \* the document as json.load returned it (NoDoc before the read)
    reads,         \* number of times the manifest was opened for reading
    writes,        \* number of times the manifest was written
    args,          \* parsed arguments: pr_id, pr_author, pr_dag_name
    history,       \* commits of the main line, newest first
    last_10_commits, \* what iter_commits(max_count=10) returned
    commit,        \* index in last_10_commits returned by find_commit (0 = None)
    findAsked,     \* indices find_commit prompted for, in order
    scopeAsked,    \* indices of files check_changes_in_dag_only prompted for
    scopeOk,       \* what check_changes_in_dag_only returned ("none" before the call)
    branchCreated, \* create_head('deploy-<pr_id>') succeeded in this run
    tries,         \* outcome of each add+commit attempt, in order
    findCall,      \* one call of find_commit on drawn inputs (SpecFind)
    scopeCall      \* one call of check_changes_in_dag_only on drawn inputs (SpecScope)

mainVars == <<pc, error, ops, fileExists, fileDoc, origDoc, readDoc, reads, writes,
              args, history, last_10_commits, commit, findAsked, scopeAsked,
              scopeOk, branchCreated, tries>>
vars == <<pc, error, ops, fileExists, fileDoc, origDoc, readDoc, reads, writes,
          args, history, last_10_commits, commit, findAsked, scopeAsked,
          scopeOk, branchCreated, tries, findCall, scopeCall>>

(***************************************************************************)
(* Bounds                                                                  *)
(***************************************************************************)
MaxCommits == 3     \* longest commit list drawn for a call of find_commit
MaxFiles == 3       \* longest file list drawn for a call of check_changes_in_dag_only
MaxOlder == 11      \* most filler commits placed in front of the interesting ones

(***************************************************************************)
(* Strings                                                                 *)
(***************************************************************************)
Digits == {"0", "1", "2", "3", "4", "5", "6", "7", "8", "9"}

DigitChar(d) ==
    CASE d = 0 -> "0" [] d = 1 -> "1" [] d = 2 -> "2" [] d = 3 -> "3"
      [] d = 4 -> "4" [] d = 5 -> "5" [] d = 6 -> "6" [] d = 7 -> "7"
      [] d = 8 -> "8" [] d = 9 -> "9"

\* str(n) for a Python int
RECURSIVE str(_)
str(n) ==
    IF n < 0 THEN <<"-">> \o str(0 - n)
    ELSE IF n < 10 THEN <<DigitChar(n)>>
    ELSE str(n \div 10) \o <<DigitChar(n % 10)>>

\* s.startswith(prefix)
startswith(s, prefix) ==
    /\ Len(s) >= Len(prefix)
    /\ SubSeq(s, 1, Len(prefix)) = prefix

\* s.split(sep) for a one-character separator: always at least one segment
RECURSIVE splitFrom(_, _, _, _)
splitFrom(s, sep, i, cur) ==
    IF i > Len(s) THEN <<cur>>
    ELSE IF s[i] = sep THEN <<cur>> \o splitFrom(s, sep, i + 1, <<>>)
    ELSE splitFrom(s, sep, i + 1, Append(cur, s[i]))

split(s, sep) == splitFrom(s, sep, 1, <<>>)

\* response.lower() on the responses the operator types
lower(response) ==
    CASE response = "Y" -> "y"
      [] response = "N" -> "n"
      [] response = "YES" -> "yes"
      [] OTHER -> response

(***************************************************************************)
(* check_commit: re.findall(r'\(#(\d+)\)', message)                        *)
(***************************************************************************)
\* first position >= i of message that does not hold a digit
RECURSIVE digitsEnd(_, _)
digitsEnd(message, i) ==
    IF i <= Len(message) /\ message[i] \in Digits
    THEN digitsEnd(message, i + 1)
    ELSE i

\* position of the closing parenthesis of a match starting at i, or 0
matchAt(message, i) ==
    IF /\ i + 3 <= Len(message)
       /\ message[i] = "("
       /\ message[i + 1] = "#"
    THEN LET j == digitsEnd(message, i + 2)
         IN  IF j > i + 2 /\ j <= Len(message) /\ message[j] = ")" THEN j ELSE 0
    ELSE 0

\* the captured groups of the non-overlapping matches, leftmost first
RECURSIVE findallFrom(_, _)
findallFrom(message, i) ==
    IF i > Len(message) THEN <<>>
    ELSE LET j == matchAt(message, i)
         IN  IF j > 0
             THEN <<SubSeq(message, i + 2, j - 1)>> \o findallFrom(message, j + 1)
             ELSE findallFrom(message, i + 1)

findall(message) == findallFrom(message, 1)

\* faulty variant: any token, not the first, may name the pull request
check_commit_any(message, pull_request_id) ==
    \E k \in 1..Len(findall(message)) : findall(message)[k] = str(pull_request_id)

check_commit(message, pull_request_id) ==
    LET regex_result == findall(message)
    IN  IF Len(regex_result) > 0
        THEN regex_result[1] = str(pull_request_id)
        ELSE FALSE

\* prompt_if_continue, given the line the operator typed
prompt_if_continue(response) == lower(response) = "y"

(***************************************************************************)
(* find_commit.  answers[i] is what the operator types if asked about      *)
(* commit i.  The result is the index of the returned commit (0 for None)  *)
(* and the indices the operator was asked about, in order.                 *)
(***************************************************************************)
RECURSIVE findFrom(_, _, _, _, _, _)
findFrom(commit_list, pull_request_id, author_name, answers, i, asked) ==
    IF i > Len(commit_list) THEN [commit |-> 0, asked |-> asked]
    ELSE IF check_commit(commit_list[i].summary, pull_request_id)
         THEN IF commit_list[i].author # author_name
              THEN IF prompt_if_continue(answers[i])
                   THEN [commit |-> i, asked |-> Append(asked, i)]
                   ELSE findFrom(commit_list, pull_request_id, author_name,
                                 answers, i + 1, Append(asked, i))
              ELSE [commit |-> i, asked |-> asked]
         ELSE findFrom(commit_list, pull_request_id, author_name,
                       answers, i + 1, asked)

find_commit(commit_list, pull_request_id, author_name, answers) ==
    findFrom(commit_list, pull_request_id, author_name, answers, 1, <<>>)

(***************************************************************************)
(* check_changes_in_dag_only.  answers[i] is what the operator types if    *)
(* asked about file i.                                                     *)
(***************************************************************************)
Slash == "/"
DagsPrefix == <<"d", "a", "g", "s", "/">>

inDag(file, dag_name) ==
    /\ startswith(file, DagsPrefix)
    /\ split(file, Slash)[2] = dag_name

RECURSIVE checkFrom(_, _, _, _, _)
checkFrom(files_changed, dag_name, answers, i, asked) ==
    IF i > Len(files_changed) THEN [ok |-> TRUE, asked |-> asked]
    ELSE IF ~ inDag(files_changed[i], dag_name)
         THEN IF prompt_if_continue(answers[i])
              THEN checkFrom(files_changed, dag_name, answers, i + 1, Append(asked, i))
              ELSE [ok |-> FALSE, asked |-> Append(asked, i)]
         ELSE checkFrom(files_changed, dag_name, answers, i + 1, asked)

\* faulty variant: a declined prompt does not end the loop
RECURSIVE askAllFrom(_, _, _, _, _, _)
askAllFrom(files_changed, dag_name, answers, i, asked, ok) ==
    IF i > Len(files_changed) THEN [ok |-> ok, asked |-> asked]
    ELSE IF ~ (startswith(files_changed[i], <<"d", "a", "g", "s", "/">>)
               /\ split(files_changed[i], "/")[2] = dag_name)
         THEN askAllFrom(files_changed, dag_name, answers, i + 1, Append(asked, i),
                         ok /\ prompt_if_continue(answers[i]))
         ELSE askAllFrom(files_changed, dag_name, answers, i + 1, asked, ok)

check_changes_in_dag_only_askAll(files_changed, dag_name, answers) ==
    askAllFrom(files_changed, dag_name, answers, 1, <<>>, TRUE)

check_changes_in_dag_only(files_changed, dag_name, answers) ==
    checkFrom(files_changed, dag_name, answers, 1, <<>>)

(***************************************************************************)
(* The manifest.  A JSON value is a string [t |-> "str", v |-> s] or an    *)
(* object [t |-> "obj", v |-> members], members being the sequence of      *)
(* <<key, value>> pairs in textual order (a JSON text may repeat a key).   *)
(* A Python dict is the same shape with distinct keys in insertion order.  *)
(***************************************************************************)
JStr(s) == [t |-> "str", v |-> s]
JObj(members) == [t |-> "obj", v |-> members]

hasKey(d, k) == \E i \in 1..Len(d) : d[i][1] = k
getitem(d, k) == d[CHOOSE i \in 1..Len(d) : d[i][1] = k][2]

\* d[k] = v on a dict: an existing key keeps its place
setitem(d, k, v) ==
    IF hasKey(d, k)
    THEN [i \in 1..Len(d) |-> IF d[i][1] = k THEN <<k, v>> ELSE d[i]]
    ELSE Append(d, <<k, v>>)

\* json.load: a repeated key keeps its last value
RECURSIVE json_load(_)
RECURSIVE loadMembers(_, _, _)
loadMembers(members, i, d) ==
    IF i > Len(members) THEN d
    ELSE loadMembers(members, i + 1,
                     setitem(d, members[i][1], json_load(members[i][2])))

json_load(text) ==
    IF text.t = "str" THEN text ELSE JObj(loadMembers(text.v, 1, <<>>))

\* json.dump(data, f, indent=4): the members in dict order
json_dump(data) == data

KVersion == <<"v", "e", "r", "s", "i", "o", "n">>
KDags == <<"d", "a", "g", "s">>

\* data['version']['dags'] can be assigned into
assignable(data) ==
    /\ data.t = "obj"
    /\ hasKey(data.v, KVersion)
    /\ getitem(data.v, KVersion).t = "obj"
    /\ hasKey(getitem(data.v, KVersion).v, KDags)
    /\ getitem(getitem(data.v, KVersion).v, KDags).t = "obj"

\* faulty variant: version.dags is replaced by a mapping holding the one workflow
set_dag_version_replaceDags(data, pr_dag_name, commit_hash) ==
    LET version == getitem(data.v, KVersion).v
    IN  JObj(setitem(data.v, KVersion,
               JObj(setitem(version, KDags,
                      JObj(<< <<pr_dag_name, JStr(commit_hash)>> >>)))))

\* data['version']['dags'][pr_dag_name] = commit_hash
set_dag_version(data, pr_dag_name, commit_hash) ==
    LET version == getitem(data.v, KVersion).v
        dags == getitem(version, KDags).v
    IN  JObj(setitem(data.v, KVersion,
               JObj(setitem(version, KDags,
                      JObj(setitem(dags, pr_dag_name, JStr(commit_hash)))))))

(***************************************************************************)
(* Inputs of a run                                                         *)
(***************************************************************************)
Etl == <<"e", "t", "l">>
Et == <<"e", "t">>
DagNames == {Etl, Et}

P_etl_x == <<"d", "a", "g", "s", "/", "e", "t", "l", "/", "x">>
P_et_x == <<"d", "a", "g", "s", "/", "e", "t", "/", "x">>
P_etl == <<"d", "a", "g", "s", "/", "e", "t", "l">>
P_dags_x == <<"d", "a", "g", "s", "/", "x">>
P_x_etl_x == <<"x", "/", "d", "a", "g", "s", "/", "e", "t", "l", "/", "x">>
P_dags == <<"d", "a", "g", "s">>
P_etl_only == <<"e", "t", "l", "/", "x">>
P_dagsx == <<"d", "a", "g", "s", "x", "/", "e", "t", "l", "/", "x">>
Paths == {P_etl_x, P_et_x, P_etl, P_dags_x, P_x_etl_x, P_dags, P_etl_only, P_dagsx}

S_pr1 == <<"f", "(", "#", "1", ")">>
S_pr2_pr1 == <<"(", "#", "2", ")", "(", "#", "1", ")">>
S_pr12 == <<"(", "#", "1", "2", ")">>
S_pr01 == <<"(", "#", "0", "1", ")">>
S_open_pr1 == <<"(", "#", "1", "(", "#", "1", ")">>
S_none == <<"#", "1", ")", "(", "1", ")">>
Summaries == {S_pr1, S_pr2_pr1, S_pr12, S_pr01, S_open_pr1, S_none}

PrIds == {1, 2, 12}
Responses == {"y", "Y", "n"}

Filler == [hexsha |-> "0f0f0f", summary |-> S_none, author |-> "alice",
           files |-> <<>>]
CMatch == [hexsha |-> "def456", summary |-> S_pr1, author |-> "alice",
           files |-> <<P_etl_x>>]
CBob == [hexsha |-> "b0b0b0", summary |-> S_pr1, author |-> "bob",
         files |-> <<P_etl_x, P_dags_x>>]
CStray == [hexsha |-> "57a757", summary |-> S_pr1, author |-> "alice",
           files |-> <<P_x_etl_x, P_etl>>]
CLater == [hexsha |-> "1a7e12", summary |-> S_pr2_pr1, author |-> "alice",
           files |-> <<P_et_x>>]
Heads == {<<>>, <<CMatch>>, <<CBob>>, <<CBob, CMatch>>, <<CStray>>,
          <<CLater, CMatch>>}

Fillers(n) == [i \in 1..n |-> Filler]
Histories == {Fillers(n) \o h \o <<Filler>> : n \in 0..MaxOlder, h \in Heads}

ArgSets == {[pr_id |-> 1, pr_author |-> "alice", pr_dag_name |-> Etl],
            [pr_id |-> 2, pr_author |-> "alice", pr_dag_name |-> Et],
            [pr_id |-> 1, pr_author |-> "alice", pr_dag_name |-> Et]}

NoDoc == JStr("")
M_one == JObj(<< <<KVersion, JObj(<< <<KDags, JObj(<< <<Etl, JStr("abc123")>> >>)>> >>)>> >>)
M_two == JObj(<< <<KVersion, JObj(<< <<KDags, JObj(<< <<Etl, JStr("abc123")>>,
                                                       <<Et, JStr("777777")>> >>)>>,
                                      <<Et, JStr("2.1")>> >>)>>,
                 <<Etl, JStr("owner")>> >>)
M_dup == JObj(<< <<KVersion, JObj(<< <<KDags, JObj(<< <<Et, JStr("111111")>>,
                                                       <<Etl, JStr("abc123")>>,
                                                       <<Et, JStr("222222")>> >>)>> >>)>> >>)
M_nover == JObj(<< <<KDags, JObj(<< <<Etl, JStr("abc123")>> >>)>> >>)
M_strdags == JObj(<< <<KVersion, JObj(<< <<KDags, JStr("abc123")>> >>)>> >>)
Manifests == {M_one, M_two, M_dup, M_nover, M_strdags}

Raises == {"GitCommandError", "Exception"}

Min(a, b) == IF a < b THEN a ELSE b

\* the operations issued when the f-th of them raises (f = 0: none raises)
Issued(calls, f) == IF f = 0 THEN calls ELSE SubSeq(calls, 1, f)

NoCall == [done |-> FALSE]

(***************************************************************************)
(* main()                                                                  *)
(***************************************************************************)
Init ==
    /\ pc = "assert_deploy_file"
    /\ error = "none"
    /\ ops = <<>>
    /\ fileExists \in BOOLEAN
    /\ fileDoc \in (IF fileExists THEN Manifests ELSE {NoDoc})
    /\ origDoc = fileDoc
    /\ readDoc = NoDoc
    /\ reads = 0
    /\ writes = 0
    /\ args \in ArgSets
    /\ history \in Histories
    /\ last_10_commits = <<>>
    /\ commit = 0
    /\ findAsked = <<>>
    /\ scopeAsked = <<>>
    /\ scopeOk = "none"
    /\ branchCreated = FALSE
    /\ tries = <<>>
    /\ findCall = NoCall
    /\ scopeCall = NoCall

Fatal(e) ==
    /\ pc' = "fatal"
    /\ error' = e

\* faulty variant: the assertion is not made
AssertDeployFile_unchecked ==
    /\ pc = "assert_deploy_file"
    /\ pc' = "sync"
    /\ UNCHANGED <<error, ops, fileExists, fileDoc, origDoc, readDoc, reads, writes,
                   args, history, last_10_commits, commit, findAsked, scopeAsked,
                   scopeOk, branchCreated, tries, findCall, scopeCall>>

\* assert os.path.isfile(deploy_path), "Deploy file not found"
AssertDeployFile ==
    /\ pc = "assert_deploy_file"
    /\ IF fileExists
       THEN pc' = "sync" /\ error' = error
       ELSE Fatal("Deploy file not found")
    /\ UNCHANGED <<ops, fileExists, fileDoc, origDoc, readDoc, reads, writes, args, history,
                   last_10_commits, commit, findAsked, scopeAsked, scopeOk, branchCreated,
                   tries, findCall, scopeCall>>

\* git.Repo(repo_path); checkout(main); pull()
RepoSync ==
    /\ pc = "sync"
    /\ \E f \in 0..3, e \in Raises :
         /\ ops' = ops \o Issued(<<"Repo", "checkout main", "pull">>, f)
         /\ IF f = 0 THEN pc' = "find_commit" /\ error' = error ELSE Fatal(e)
    /\ UNCHANGED <<fileExists, fileDoc, origDoc, readDoc, reads, writes, args, history,
                   last_10_commits, commit, findAsked, scopeAsked, scopeOk, branchCreated,
                   tries, findCall, scopeCall>>

\* faulty variant: max_count is not passed on
iter_commits_uncapped(log, max_count) == log

\* repo.iter_commits(main, max_count): the newest max_count commits
iter_commits(log, max_count) == SubSeq(log, 1, Min(max_count, Len(log)))

\* the commits find_commit may ask the operator about
Askable(commit_list, author_name) ==
    {i \in 1..Len(commit_list) : commit_list[i].author # author_name}

\* last_10_commits = list(iter_commits(main, max_count=10)); find_commit; assert
LocateCommit ==
    /\ pc = "find_commit"
    /\ ops' = Append(ops, "iter_commits")
    /\ \/ /\ \E e \in Raises : Fatal(e)
          /\ UNCHANGED <<last_10_commits, commit, findAsked>>
       \/ /\ last_10_commits' = iter_commits(history, 10)
          /\ \E answers \in [Askable(last_10_commits', args.pr_author) -> Responses] :
               LET r == find_commit(last_10_commits', args.pr_id, args.pr_author, answers)
               IN  /\ commit' = r.commit
                   /\ findAsked' = r.asked
                   /\ IF r.commit = 0
                      THEN Fatal("Commit not found")
                      ELSE pc' = "check_changes" /\ error' = error
    /\ UNCHANGED <<fileExists, fileDoc, origDoc, readDoc, reads, writes, args, history,
                   scopeAsked, scopeOk, branchCreated, tries, findCall, scopeCall>>

\* faulty variant: the `return` after 'User aborted' is missing
ValidateScope_noReturn ==
    /\ pc = "check_changes"
    /\ ops' = Append(ops, "commit stats")
    /\ \/ /\ \E e \in Raises : Fatal(e)
          /\ UNCHANGED <<scopeAsked, scopeOk>>
       \/ LET files_changed_in_commit == last_10_commits[commit].files
          IN  \E answers \in [1..Len(files_changed_in_commit) -> Responses] :
                LET r == check_changes_in_dag_only(files_changed_in_commit,
                                                   args.pr_dag_name, answers)
                IN  /\ scopeAsked' = r.asked
                    /\ scopeOk' = (IF r.ok THEN "ok" ELSE "declined")
                    /\ pc' = "create_head"
                    /\ error' = error
    /\ UNCHANGED <<fileExists, fileDoc, origDoc, readDoc, reads, writes, args, history,
                   last_10_commits, commit, findAsked, branchCreated, tries,
                   findCall, scopeCall>>

\* faulty variant: the deploy branch is created before the changed files are checked
ValidateScope_branchFirst ==
    /\ pc = "check_changes"
    /\ \/ /\ ops' = Append(ops, "commit stats")
          /\ \E e \in Raises : Fatal(e)
          /\ UNCHANGED <<scopeAsked, scopeOk, branchCreated>>
       \/ LET files_changed_in_commit == last_10_commits[commit].files
          IN  \E answers \in [1..Len(files_changed_in_commit) -> Responses] :
                LET r == check_changes_in_dag_only(files_changed_in_commit,
                                                   args.pr_dag_name, answers)
                IN  /\ ops' = ops \o <<"commit stats", "create_head", "checkout deploy">>
                    /\ branchCreated' = TRUE
                    /\ scopeAsked' = r.asked
                    /\ scopeOk' = (IF r.ok THEN "ok" ELSE "declined")
                    /\ pc' = IF r.ok THEN "update_manifest" ELSE "aborted"
                    /\ error' = error
    /\ UNCHANGED <<fileExists, fileDoc, origDoc, readDoc, reads, writes, args, history,
                   last_10_commits, commit, findAsked, tries, findCall, scopeCall>>

\* repo.commit(commit_hash).stats.files; check_changes_in_dag_only; return on False
ValidateScope ==
    /\ pc = "check_changes"
    /\ ops' = Append(ops, "commit stats")
    /\ \/ /\ \E e \in Raises : Fatal(e)
          /\ UNCHANGED <<scopeAsked, scopeOk>>
       \/ LET files_changed_in_commit == last_10_commits[commit].files
          IN  \E answers \in [1..Len(files_changed_in_commit) -> Responses] :
                LET r == check_changes_in_dag_only(files_changed_in_commit,
                                                   args.pr_dag_name, answers)
                IN  /\ scopeAsked' = r.asked
                    /\ scopeOk' = (IF r.ok THEN "ok" ELSE "declined")
                    /\ pc' = IF r.ok THEN "create_head" ELSE "aborted"
                    /\ error' = error
    /\ UNCHANGED <<fileExists, fileDoc, origDoc, readDoc, reads, writes, args, history,
                   last_10_commits, commit, findAsked, branchCreated, tries,
                   findCall, scopeCall>>

\* faulty variant: a failure to create or check out the branch is swallowed
CreateBranch_ignoreFailure ==
    /\ pc = "create_head"
    /\ \E f \in 0..2 :
         /\ ops' = ops \o Issued(<<"create_head", "checkout deploy">>, f)
         /\ branchCreated' = (f # 1)
         /\ pc' = "update_manifest"
    /\ UNCHANGED <<error, fileExists, fileDoc, origDoc, readDoc, reads, writes, args,
                   history, last_10_commits, commit, findAsked, scopeAsked, scopeOk,
                   tries, findCall, scopeCall>>

\* repo.create_head('deploy-<pr_id>').checkout()
CreateBranch ==
    /\ pc = "create_head"
    /\ \E f \in 0..2, e \in Raises :
         /\ ops' = ops \o Issued(<<"create_head", "checkout deploy">>, f)
         /\ branchCreated' = (f # 1)
         /\ IF f = 0 THEN pc' = "update_manifest" /\ error' = error ELSE Fatal(e)
    /\ UNCHANGED <<fileExists, fileDoc, origDoc, readDoc, reads, writes, args, history,
                   last_10_commits, commit, findAsked, scopeAsked, scopeOk, tries,
                   findCall, scopeCall>>

\* open/json.load/assign; os.remove; open/json.dump
UpdateManifest ==
    /\ pc = "update_manifest"
    /\ reads' = reads + 1
    /\ \/ \* open(deploy_path, 'r') fails
          /\ Fatal("Exception")
          /\ UNCHANGED <<fileExists, fileDoc, readDoc, writes>>
       \/ LET data == json_load(fileDoc)
          IN  /\ readDoc' = data
              /\ IF ~ assignable(data)
                 THEN \* KeyError or TypeError in the assignment
                      /\ Fatal("Exception")
                      /\ UNCHANGED <<fileExists, fileDoc, writes>>
                 ELSE \/ \* os.remove fails
                         /\ Fatal("Exception")
                         /\ UNCHANGED <<fileExists, fileDoc, writes>>
                      \/ \* open(deploy_path, 'w') fails after the remove
                         /\ Fatal("Exception")
                         /\ fileExists' = FALSE
                         /\ fileDoc' = NoDoc
                         /\ UNCHANGED writes
                      \/ /\ fileDoc' = json_dump(set_dag_version(data, args.pr_dag_name,
                                                   last_10_commits[commit].hexsha))
                         /\ writes' = writes + 1
                         /\ pc' = "commit"
                         /\ UNCHANGED <<fileExists, error>>
    /\ UNCHANGED <<ops, origDoc, args, history, last_10_commits, commit, findAsked,
                   scopeAsked, scopeOk, branchCreated, tries, findCall, scopeCall>>

\* faulty variant: no except block, a GitCommandError propagates like any other
CommitAttempt_noRetry ==
    /\ pc = "commit"
    /\ \E f \in 0..2, e \in Raises :
         /\ ops' = ops \o Issued(<<"add", "commit">>, f)
         /\ IF f = 0
            THEN /\ tries' = Append(tries, "ok")
                 /\ pc' = "push"
                 /\ error' = error
            ELSE /\ tries' = Append(tries, e)
                 /\ Fatal(e)
    /\ UNCHANGED <<fileExists, fileDoc, origDoc, readDoc, reads, writes, args, history,
                   last_10_commits, commit, findAsked, scopeAsked, scopeOk, branchCreated,
                   findCall, scopeCall>>

\* try: repo.git.add; repo.git.commit  except git.GitCommandError: (retry)
CommitAttempt ==
    /\ pc = "commit"
    /\ \E f \in 0..2, e \in Raises :
         /\ ops' = ops \o Issued(<<"add", "commit">>, f)
         /\ IF f = 0
            THEN /\ tries' = Append(tries, "ok")
                 /\ pc' = "push"
                 /\ error' = error
            ELSE /\ tries' = Append(tries, e)
                 /\ IF e = "GitCommandError"
                    THEN pc' = "retry_commit" /\ error' = error
                    ELSE Fatal(e)
    /\ UNCHANGED <<fileExists, fileDoc, origDoc, readDoc, reads, writes, args, history,
                   last_10_commits, commit, findAsked, scopeAsked, scopeOk, branchCreated,
                   findCall, scopeCall>>

\* the except block: repo.git.add; repo.git.commit once more
RetryCommit ==
    /\ pc = "retry_commit"
    /\ \E f \in 0..2, e \in Raises :
         /\ ops' = ops \o Issued(<<"add", "commit">>, f)
         /\ IF f = 0
            THEN /\ tries' = Append(tries, "ok")
                 /\ pc' = "push"
                 /\ error' = error
            ELSE /\ tries' = Append(tries, e)
                 /\ Fatal(e)
    /\ UNCHANGED <<fileExists, fileDoc, origDoc, readDoc, reads, writes, args, history,
                   last_10_commits, commit, findAsked, scopeAsked, scopeOk, branchCreated,
                   findCall, scopeCall>>

\* repo.git.push('origin', 'deploy-<pr_id>')
Push ==
    /\ pc = "push"
    /\ ops' = Append(ops, "push")
    /\ \/ pc' = "done" /\ error' = error
       \/ \E e \in Raises : Fatal(e)
    /\ UNCHANGED <<fileExists, fileDoc, origDoc, readDoc, reads, writes, args, history,
                   last_10_commits, commit, findAsked, scopeAsked, scopeOk, branchCreated,
                   tries, findCall, scopeCall>>

Next ==
    \/ AssertDeployFile
    \/ RepoSync
    \/ LocateCommit
    \/ ValidateScope
    \/ CreateBranch
    \/ UpdateManifest
    \/ CommitAttempt
    \/ RetryCommit
    \/ Push

Spec == Init /\ [][Next]_vars

(***************************************************************************)
(* One call of find_commit on drawn inputs                                 *)
(***************************************************************************)
SeqsUpTo(S, n) == UNION {[1..k -> S] : k \in 0..n}

\* every summary by the expected author, and the ones with a token by another
FindCommits ==
    {[hexsha |-> "c0ffee", summary |-> s, author |-> "alice", files |-> <<>>] :
       s \in Summaries}
    \cup {[hexsha |-> "c0ffee", summary |-> s, author |-> "bob", files |-> <<>>] :
            s \in {S_pr1, S_pr2_pr1, S_pr12}}

MainIdle ==
    /\ pc = "assert_deploy_file"
    /\ error = "none"
    /\ ops = <<>>
    /\ fileExists = FALSE
    /\ fileDoc = NoDoc
    /\ origDoc = NoDoc
    /\ readDoc = NoDoc
    /\ reads = 0
    /\ writes = 0
    /\ args = [pr_id |-> 1, pr_author |-> "alice", pr_dag_name |-> Etl]
    /\ history = <<>>
    /\ last_10_commits = <<>>
    /\ commit = 0
    /\ findAsked = <<>>
    /\ scopeAsked = <<>>
    /\ scopeOk = "none"
    /\ branchCreated = FALSE
    /\ tries = <<>>

InitFind ==
    /\ MainIdle
    /\ scopeCall = NoCall
    /\ \E commit_list \in SeqsUpTo(FindCommits, MaxCommits),
          pull_request_id \in PrIds, author_name \in {"alice"} :
         findCall = [done |-> FALSE, commit_list |-> commit_list,
                     pull_request_id |-> pull_request_id,
                     author_name |-> author_name,
                     answers |-> <<>>, commit |-> 0, asked |-> <<>>]

CallFindCommit ==
    /\ ~ findCall.done
    /\ \E answers \in [Askable(findCall.commit_list, findCall.author_name) -> Responses] :
         LET r == find_commit(findCall.commit_list, findCall.pull_request_id,
                              findCall.author_name, answers)
         IN  findCall' = [findCall EXCEPT !.done = TRUE, !.answers = answers,
                                          !.commit = r.commit, !.asked = r.asked]
    /\ UNCHANGED <<mainVars, scopeCall>>

NextFind == CallFindCommit

SpecFind == InitFind /\ [][NextFind]_vars

(***************************************************************************)
(* One call of check_changes_in_dag_only on drawn inputs                   *)
(***************************************************************************)
\* stats.files is a dict keyed by path: the paths of a commit are distinct
FileLists ==
    {fs \in SeqsUpTo(Paths, MaxFiles) :
       \A i \in 1..Len(fs), j \in 1..Len(fs) : fs[i] = fs[j] => i = j}

InitScope ==
    /\ MainIdle
    /\ findCall = NoCall
    /\ \E files_changed \in FileLists, dag_name \in DagNames :
         scopeCall = [done |-> FALSE, files_changed |-> files_changed,
                      dag_name |-> dag_name, answers |-> <<>>,
                      ok |-> TRUE, asked |-> <<>>]

CallCheckChanges ==
    /\ ~ scopeCall.done
    /\ \E answers \in [1..Len(scopeCall.files_changed) -> Responses] :
         LET r == check_changes_in_dag_only(scopeCall.files_changed,
                                            scopeCall.dag_name, answers)
         IN  scopeCall' = [scopeCall EXCEPT !.done = TRUE, !.answers = answers,
                                            !.ok = r.ok, !.asked = r.asked]
    /\ UNCHANGED <<mainVars, findCall>>

NextScope == CallCheckChanges

SpecScope == InitScope /\ [][NextScope]_vars

(***************************************************************************)
(* Vocabulary of the properties                                            *)
(***************************************************************************)
Range(seq) == {seq[i] : i \in 1..Len(seq)}
Last(seq) == seq[Len(seq)]
Increasing(seq) == \A i \in 1..Len(seq), j \in 1..Len(seq) : i < j => seq[i] < seq[j]
HasPrefix(s, p) == \E n \in 0..Len(s) : SubSeq(s, 1, n) = p

\* the operator accepted: typed y or Y
Accepts(response) == response \in {"y", "Y"}

\* <<i, j>>: message[i..j] reads "(#", one or more digits, ")"
Tokens(message) ==
    {t \in (1..Len(message)) \X (1..Len(message)) :
       /\ t[2] > t[1] + 2
       /\ message[t[1]] = "("
       /\ message[t[1] + 1] = "#"
       /\ \A k \in (t[1] + 2)..(t[2] - 1) : message[k] \in Digits
       /\ message[t[2]] = ")"}

FirstToken(message) ==
    LET t == CHOOSE t \in Tokens(message) : \A u \in Tokens(message) : t[1] <= u[1]
    IN  SubSeq(message, t[1] + 2, t[2] - 1)

RECURSIVE DecimalValue(_)
DecimalValue(ds) ==
    IF ds = <<>> THEN 0
    ELSE 10 * DecimalValue(SubSeq(ds, 1, Len(ds) - 1))
         + (CHOOSE d \in 0..9 : DigitChar(d) = Last(ds))

\* ds is the decimal string of n
IsDecimalOf(ds, n) ==
    /\ n >= 0
    /\ DecimalValue(ds) = n
    /\ Len(ds) = 1 \/ ds[1] # "0"

\* the first (#digits) token of the summary is the PR id
NamesPr(message, n) ==
    /\ Tokens(message) # {}
    /\ IsDecimalOf(FirstToken(message), n)

\* some token of the summary after the first is the PR id
LaterNamesPr(message, n) ==
    \E t \in Tokens(message) :
       /\ IsDecimalOf(SubSeq(message, t[1] + 2, t[2] - 1), n)
       /\ \E u \in Tokens(message) : u[1] < t[1]

StageOf(p) ==
    CASE p \in {"assert_deploy_file", "sync"} -> "Init"
      [] p = "find_commit" -> "Synced"
      [] p = "check_changes" -> "CommitLocated"
      [] p \in {"create_head", "update_manifest"} -> "ScopeValidated"
      [] p \in {"commit", "retry_commit"} -> "ManifestUpdated"
      [] p = "push" -> "Committed"
      [] p = "done" -> "Pushed"
      [] p = "aborted" -> "Aborted"
      [] p = "fatal" -> "Fatal"

Chain == <<"Init", "Synced", "CommitLocated", "ScopeValidated", "ManifestUpdated",
           "Committed", "Pushed">>
Rank(stage) == CHOOSE i \in 1..Len(Chain) : Chain[i] = stage

ManifestUnchanged == fileExists /\ fileDoc = origDoc /\ writes = 0
NoCommitOps == Range(ops) \cap {"add", "commit", "push"} = {}
MissingAtStart == origDoc = NoDoc

(***************************************************************************)
(* C1: a run moves through Init, Synced, CommitLocated, ScopeValidated,    *)
(* ManifestUpdated, Committed, Pushed one stage at a time, never backwards *)
(* and never skipping; it leaves the chain only to Aborted (from           *)
(* CommitLocated, the validator having declined) or to Fatal, and both are *)
(* final.  The manifest is rewritten only after scope validation           *)
(* succeeded, a commit is attempted only after the rewrite, and the push   *)
(* is issued only after a commit attempt succeeded.                        *)
(***************************************************************************)
StageStep ==
    LET a == StageOf(pc)
        b == StageOf(pc')
    IN  \/ a = b
        \/ /\ a \in Range(Chain) /\ b \in Range(Chain)
           /\ Rank(b) = Rank(a) + 1
        \/ /\ b = "Fatal"
           /\ a \in Range(Chain) \ {"Pushed"}
           /\ error' # "none"
        \/ /\ b = "Aborted"
           /\ a = "CommitLocated"
           /\ scopeOk' = "declined"
           /\ error' = "none"

StageEffects ==
    /\ writes > 0 => scopeOk = "ok"
    /\ StageOf(pc) \in {"ScopeValidated", "ManifestUpdated", "Committed", "Pushed"}
         => scopeOk = "ok" /\ commit # 0
    /\ StageOf(pc) \in {"ManifestUpdated", "Committed", "Pushed"} => writes = 1
    /\ "commit" \in Range(ops) => writes = 1
    /\ StageOf(pc) \in {"Committed", "Pushed"} => tries # <<>> /\ Last(tries) = "ok"
    /\ "push" \in Range(ops) => tries # <<>> /\ Last(tries) = "ok"
    /\ StageOf(pc) = "Pushed" => Last(ops) = "push"

C1_StageOrder == [][StageStep]_vars /\ []StageEffects

C1_Witness ==
    /\ pc = "done"
    /\ ops = <<"Repo", "checkout main", "pull", "iter_commits", "commit stats",
               "create_head", "checkout deploy", "add", "commit", "push">>

(***************************************************************************)
(* C2: when the operator declines a scope violation the run returns        *)
(* without error, the manifest is as it was, no deploy branch was created, *)
(* and no add, commit or push was issued: the backend saw only the opening *)
(* of the repository, the checkout of main, the pull and the two reads.    *)
(***************************************************************************)
C2_DeclineLeavesNoTrace ==
    /\ scopeOk = "declined" => pc = "aborted"
    /\ pc = "aborted" =>
         /\ scopeOk = "declined"
         /\ error = "none"
         /\ ManifestUnchanged
         /\ reads = 0
         /\ ~ branchCreated
         /\ tries = <<>>
         /\ ops = <<"Repo", "checkout main", "pull", "iter_commits", "commit stats">>

C2_Witness ==
    /\ pc = "aborted"
    /\ scopeAsked # <<>>
    /\ fileDoc \in Manifests

(***************************************************************************)
(* C3 as stated: whenever the first add+commit attempt fails, add+commit   *)
(* is retried exactly once; a failed retry ends the run Fatal with no      *)
(* push; the push follows a successful attempt; at most two attempts.      *)
(***************************************************************************)
RetryBounds ==
    /\ Len(tries) <= 2
    /\ Cardinality({i \in 1..Len(ops) : ops[i] = "commit"}) <= 2
    /\ Cardinality({i \in 1..Len(ops) : ops[i] = "add"}) <= 2
    /\ Len(tries) = 2 => tries[1] # "ok"
    /\ Len(tries) = 2 /\ tries[2] # "ok"
         => pc = "fatal" /\ error = tries[2] /\ "push" \notin Range(ops)
    /\ "push" \in Range(ops) => tries # <<>> /\ Last(tries) = "ok"
    /\ pc = "retry_commit" <=> tries = <<"GitCommandError">>

C3_AnyFailureRetried ==
    /\ RetryBounds
    /\ (tries # <<>> /\ tries[1] # "ok" /\ pc # "retry_commit") => Len(tries) = 2

(***************************************************************************)
(* C3 amended: the retry follows a first attempt that failed with          *)
(* GitCommandError; a first attempt that failed with any other exception   *)
(* ends the run Fatal with no retry and no push.                           *)
(***************************************************************************)
C3_GitCommandErrorRetried ==
    /\ RetryBounds
    /\ (tries # <<>> /\ tries[1] = "GitCommandError" /\ pc # "retry_commit")
         => Len(tries) = 2
    /\ (tries # <<>> /\ tries[1] \notin {"ok", "GitCommandError"})
         => /\ Len(tries) = 1
            /\ pc = "fatal"
            /\ error = tries[1]
            /\ "push" \notin Range(ops)
    /\ Len(tries) = 2 => tries[1] = "GitCommandError"

C3_Witness ==
    /\ tries = <<"GitCommandError", "ok">>
    /\ pc = "done"
    /\ ops = <<"Repo", "checkout main", "pull", "iter_commits", "commit stats",
               "create_head", "checkout deploy", "add", "commit", "add", "commit",
               "push">>

(***************************************************************************)
(* C4: find_commit returns the first commit of the list whose summary's    *)
(* first (#digits) token is the decimal string of the PR id and whose      *)
(* author is the expected one or was accepted by the operator; None if     *)
(* there is none.  The operator is asked exactly about the commits up to   *)
(* the returned one that name the PR id and have another author, in order. *)
(***************************************************************************)
FindQualifies(i) ==
    /\ NamesPr(findCall.commit_list[i].summary, findCall.pull_request_id)
    /\ \/ findCall.commit_list[i].author = findCall.author_name
       \/ Accepts(findCall.answers[i])

UnderDag(file, dag_name) ==
    \/ file = DagsPrefix \o dag_name
    \/ HasPrefix(file, DagsPrefix \o dag_name \o <<Slash>>)

\* the path reads dags/<workflow_name>/... : segments follow the workflow name
DagShape(file, dag_name) == HasPrefix(file, DagsPrefix \o dag_name \o <<Slash>>)

NonMatching ==
    {i \in 1..Len(scopeCall.files_changed) :
       ~ UnderDag(scopeCall.files_changed[i], scopeCall.dag_name)}

Declined(i) == ~ Accepts(scopeCall.answers[i])

C6_InScopeIsDagShape ==
    scopeCall.done =>
      LET n == Len(scopeCall.files_changed)
          examined == IF scopeCall.ok THEN n ELSE Last(scopeCall.asked)
      IN  /\ \A i \in 1..examined :
                i \notin Range(scopeCall.asked)
                  <=> DagShape(scopeCall.files_changed[i], scopeCall.dag_name)
          /\ (\A i \in 1..n : DagShape(scopeCall.files_changed[i], scopeCall.dag_name))
               => scopeCall.ok /\ scopeCall.asked = <<>>

(***************************************************************************)
(* C7: a run that starts without the manifest file ends Fatal with         *)
(* "Deploy file not found" before any backend operation is issued.         *)
(***************************************************************************)
C7_FileCheckedFirst ==
    MissingAtStart =>
      /\ ops = <<>>
      /\ pc \in {"assert_deploy_file", "fatal"}
      /\ pc = "fatal" => error = "Deploy file not found"
      /\ ~ branchCreated /\ tries = <<>> /\ reads = 0 /\ writes = 0

C7_Witness ==
    /\ MissingAtStart
    /\ pc = "fatal"
    /\ error = "Deploy file not found"
    /\ \E i \in 1..Len(history) : NamesPr(history[i].summary, args.pr_id)

(***************************************************************************)
(* C8: the locator sees the 10 newest commits of the main line and no      *)
(* more: when none of them names the PR id the run ends Fatal with         *)
(* "Commit not found", whatever the 11th and older commits are, and the    *)
(* history is listed once.                                                 *)
(***************************************************************************)
\* iter_commits returned and find_commit ran
Located ==
    /\ "iter_commits" \in Range(ops)
    /\ ~ (pc = "fatal" /\ Last(ops) = "iter_commits" /\ error \in Raises)

C8_TenCommitWindow ==
    /\ Cardinality({i \in 1..Len(ops) : ops[i] = "iter_commits"}) <= 1
    /\ Located =>
         /\ Len(last_10_commits) <= 10
         /\ Len(last_10_commits) <= Len(history)
         /\ Len(history) <= 10 => last_10_commits = history
         /\ \A i \in 1..Len(last_10_commits) : last_10_commits[i] = history[i]
         /\ commit \in 0..Len(last_10_commits)
         /\ (\A i \in 1..Len(history) :
               NamesPr(history[i].summary, args.pr_id) => i > 10)
              => /\ pc = "fatal"
                 /\ error = "Commit not found"
                 /\ commit = 0
                 /\ Last(ops) = "iter_commits"

C8_Witness ==
    /\ Located
    /\ Len(history) > 10
    /\ NamesPr(history[11].summary, args.pr_id)
    /\ history[11].author = args.pr_author
    /\ \A i \in 1..10 : ~ NamesPr(history[i].summary, args.pr_id)
    /\ pc = "fatal"
    /\ error = "Commit not found"

(***************************************************************************)
(* C9: the rewritten manifest has version.dags[<workflow>] equal to the    *)
(* located commit's hash and every other member of version.dags, of        *)
(* version and of the document as it was read; the file is read at most    *)
(* once and written at most once, and written only after being read.       *)
(***************************************************************************)
Keys(members) == {members[i][1] : i \in 1..Len(members)}
Lookup(members, k) == members[CHOOSE i \in 1..Len(members) : members[i][1] = k][2]
Distinct(members) ==
    \A i \in 1..Len(members), j \in 1..Len(members) :
       members[i][1] = members[j][1] => i = j

\* new is old with member k set to v
OneKeySet(old, new, k) ==
    /\ Distinct(new)
    /\ Keys(new) = Keys(old) \cup {k}
    /\ \A x \in Keys(old) \ {k} : Lookup(new, x) = Lookup(old, x)

C9_OneKeyOverwritten ==
    /\ reads <= 1
    /\ writes <= reads
    /\ writes = 1 =>
         LET oldVersion == Lookup(readDoc.v, KVersion).v
             newVersion == Lookup(fileDoc.v, KVersion).v
             oldDags == Lookup(oldVersion, KDags).v
             newDags == Lookup(newVersion, KDags).v
         IN  /\ fileExists
             /\ OneKeySet(readDoc.v, fileDoc.v, KVersion)
             /\ Keys(fileDoc.v) = Keys(readDoc.v)
             /\ OneKeySet(oldVersion, newVersion, KDags)
             /\ Keys(newVersion) = Keys(oldVersion)
             /\ OneKeySet(oldDags, newDags, args.pr_dag_name)
             /\ Lookup(newDags, args.pr_dag_name)
                  = JStr(last_10_commits[commit].hexsha)

C9_Witness ==
    /\ writes = 1
    /\ origDoc = M_one
    /\ args.pr_dag_name = Etl
    /\ fileDoc = JObj(<< <<KVersion, JObj(<< <<KDags,
                     JObj(<< <<Etl, JStr("def456")>> >>)>> >>)>> >>)

(***************************************************************************)
(* C10: the deploy branch is created, and the manifest touched, only after *)
(* a commit was located and scope validation succeeded, and the branch is  *)
(* created before the manifest is touched; a run that ends Fatal because   *)
(* no commit was found or because the branch could not be created leaves   *)
(* the manifest as it was and issues no add, commit or push.               *)
(***************************************************************************)
C10_BranchBeforeManifest ==
    /\ (branchCreated \/ "create_head" \in Range(ops) \/ reads > 0 \/ writes > 0
          \/ ~ ManifestUnchanged)
         => MissingAtStart \/ (commit # 0 /\ scopeOk = "ok")
    /\ (reads > 0 \/ writes > 0)
         => branchCreated /\ "checkout deploy" \in Range(ops)
    /\ ~ MissingAtStart /\ ~ ManifestUnchanged => branchCreated
    /\ (pc = "fatal" /\ error = "Commit not found")
         => /\ commit = 0
            /\ ManifestUnchanged /\ reads = 0
            /\ ~ branchCreated
            /\ NoCommitOps
    /\ (pc = "fatal" /\ ops # <<>> /\ Last(ops) = "create_head")
         => /\ ~ branchCreated
            /\ ManifestUnchanged /\ reads = 0
            /\ NoCommitOps

C10_Witness ==
    /\ pc = "fatal"
    /\ error = "Commit not found"
    /\ findAsked # <<>>
    /\ \E i \in 1..Len(last_10_commits) :
         NamesPr(last_10_commits[i].summary, args.pr_id)

====
